---- MODULE Spec2Model ----
(***************************************************************************)
(* Iterative masked-token decoding of open-muse:                           *)
(*   MaskGitTransformer.forward / generate / generate2                     *)
(*   (src/muse/modeling_transformer.py) as called directly by a caller who *)
(*   owns the conditioning tensors and calls the same function twice, and  *)
(*   as called by PipelineMuse.__call__ (src/muse/pipeline_muse.py), and   *)
(*   as called twice with different keywords in **kwargs of generate2.     *)
(*                                                                         *)
(* Tensors are tuples: a token grid is a tuple of rows (one per batch      *)
(* item), a row a tuple of token ids; logits are grid-shaped tuples of     *)
(* channel tuples.  Python's None is the empty tuple; empty batches are    *)
(* outside the model.  Real numbers are exact rationals [n, d] or integers *)
(* scaled by CosScale.                                                     *)
(***************************************************************************)
EXTENDS Integers, Sequences, FiniteSets, TLC

VARIABLES config, class_ids, encoder_hidden_states, args, call, pc, entry,
          input_ids, scores, step, temperature, sampled_ids,
          round_log, result, error, prev, pipe, twin

vars == <<config, class_ids, encoder_hidden_states, args, call, pc, entry,
          input_ids, scores, step, temperature, sampled_ids,
          round_log, result, error, prev, pipe, twin>>

(* ---------------------------- bounds ----------------------------------- *)
MaxSeqLen == 2
MaxTimesteps == 3
MaxGuidance == 1
MaxTemperature == 1
CodebookSize == 2
NumClasses == 2
MaxEmbedding == 1
LogitRange == 3

None == <<>>

(* ------------------------- tensor helpers ------------------------------ *)
Full(n, v) == [i \in 1..n |-> v]

RestKeepsAll(row) == row

Rest(row) == [i \in 1..(Len(row) - 1) |-> row[i + 1]]

Cut(row, n) == [i \in 1..n |-> row[i]]

Min2(a, b) == IF a < b THEN a ELSE b

Max2(a, b) == IF a > b THEN a ELSE b

RECURSIVE Pow2(_)
Pow2(n) == IF n <= 0 THEN 1 ELSE 2 * Pow2(n - 1)

RECURSIVE SumSeq(_)
SumSeq(s) == IF Len(s) = 0 THEN 0 ELSE Head(s) + SumSeq(Tail(s))

RECURSIVE MinSeq(_)
MinSeq(s) == IF Len(s) = 1 THEN s[1] ELSE Min2(Head(s), MinSeq(Tail(s)))

RECURSIVE Gcd(_, _)
Gcd(a, b) == IF b = 0 THEN a ELSE Gcd(b, a % b)

(* exact rationals with a positive denominator, kept in lowest terms *)
Rat(n, d) == IF n = 0 THEN [n |-> 0, d |-> 1]
             ELSE [n |-> n \div Gcd(IF n < 0 THEN -n ELSE n, d),
                   d |-> d \div Gcd(IF n < 0 THEN -n ELSE n, d)]

RatMul(x, y) == Rat(x.n * y.n, x.d * y.d)

RatLe(x, y) == x.n * y.d <= y.n * x.d

(* ------------------------- model configuration ------------------------- *)
(* MaskGitTransformer.__init__: vocab_size is codebook_size + 1, or        *)
(* codebook_size + num_classes + 1 for a class-conditioned model           *)
(* (num_classes = 0 stands for None); mask_token_id = vocab_size - 1;      *)
(* max_position_embeddings is num_vq_tokens, + 1 for the class token.      *)
MakeConfig(n, k, x) ==
    [codebook_size |-> CodebookSize,
     num_vq_tokens |-> n,
     num_classes |-> k,
     vocab_size |-> CodebookSize + k + 1,
     mask_token_id |-> (CodebookSize + k + 1) - 1,
     max_position_embeddings |-> n + (IF k > 0 THEN 1 ELSE 0),
     add_cross_attention |-> x]

Configs == {MakeConfig(n, k, x) : n \in 1..MaxSeqLen, k \in {0, NumClasses}, x \in BOOLEAN}

(* ------------------------- sampling.py (schedule) ---------------------- *)
CosScale == 1000000

(* floor(CosScale * cos(k * pi / 120)) for k = 0..60 *)
CosTable == <<1000000, 999657, 998629, 996917, 994521, 991444, 987688, 983254, 978147, 972369,
              965925, 958819, 951056, 942641, 933580, 923879, 913545, 902585, 891006, 878817,
              866025, 852640, 838670, 824126, 809016, 793353, 777145, 760405, 743144, 725374,
              707106, 688354, 669130, 649448, 629320, 608761, 587785, 566406, 544639, 522498,
              500000, 477158, 453990, 430511, 406736, 382683, 358367, 333806, 309016, 284015,
              258819, 233445, 207911, 182235, 156434, 130526, 104528, 78459, 52335, 26176, 0>>

(* cosine_schedule(a / b) = cos(a/b * pi/2), scaled by CosScale; b divides 60 * a *)
cosine_schedule(a, b) == CosTable[((60 * a) \div b) + 1]

(* floor(seq_len * mask_ratio) *)
FloorTimes(seq_len, ratio) == (seq_len * ratio) \div CosScale

(* ------------------------- the transformer ----------------------------- *)
(* Stand-in for the trained weights: the logit of channel c at position p  *)
(* of a row, under the embedding e of that batch item (0 = zero-valued     *)
(* embedding or no embedding).                                             *)
Net(row, e, p, c) == (row[p] + SumSeq(row) + p + (e + 1) * c + e) % LogitRange

(* the logits of one row: Net at every position and channel, the sum of    *)
(* the row taken once                                                      *)
RowLogits(row, e, total) ==
    [p \in 1..Len(row) |-> [c \in 1..config.vocab_size |->
        (row[p] + total + p + (e + 1) * (c - 1) + e) % LogitRange]]

EmbedOk(ids) ==
    \A b \in 1..Len(ids) :
        /\ Len(ids[b]) <= config.max_position_embeddings
        /\ \A p \in 1..Len(ids[b]) : ids[b][p] >= 0 /\ ids[b][p] < config.vocab_size

Outcome(err, stages, logits) == [error |-> err, stages |-> stages, logits |-> logits]

(* TransformerLayer.forward, every layer alike: self-attention, then       *)
(* cross-attention when encoder_hidden_states is given (its modules exist  *)
(* only under add_cross_attention), then the feed-forward block.           *)
TransformerLayer(ids, ehs) ==
    IF ehs = None
    THEN Outcome("none", <<"attention", "ffn">>, None)
    ELSE IF ~config.add_cross_attention
    THEN Outcome("AttributeError", <<"attention">>, None)
    ELSE IF Len(ehs) # Len(ids)
    THEN Outcome("RuntimeError", <<"attention", "crossattention">>, None)
    ELSE Outcome("none", <<"attention", "crossattention", "ffn">>, None)

(* MaskGitTransformer.forward without labels: the stages entered, the      *)
(* error raised if any, and logits of shape (batch, positions, vocab_size) *)
forward(ids, ehs) ==
    IF config.add_cross_attention /\ ehs = None
    THEN Outcome("ValueError", <<>>, None)
    ELSE IF ids = None
    THEN Outcome("AttributeError", <<"embed">>, None)
    ELSE IF ~EmbedOk(ids)
    THEN Outcome("IndexError", <<"embed">>, None)
    ELSE IF TransformerLayer(ids, ehs).error # "none"
    THEN Outcome(TransformerLayer(ids, ehs).error,
                 <<"embed">> \o TransformerLayer(ids, ehs).stages, None)
    ELSE Outcome("none", <<"embed">> \o TransformerLayer(ids, ehs).stages \o <<"mlm_layer">>,
                 [b \in 1..Len(ids) |->
                    RowLogits(ids[b], IF ehs = None THEN 0 ELSE ehs[b], SumSeq(ids[b]))])

(* ------------------ logits of one round (both policies) ---------------- *)
(* logits[..., : codebook_size] *)
CutChannels(logits) ==
    [b \in 1..Len(logits) |-> [p \in 1..Len(logits[b]) |-> Cut(logits[b][p], config.codebook_size)]]

(* tensor.chunk(2): the first and the second half of the batch *)
Chunk(t, half) == [b \in 1..(Len(t) \div 2) |-> t[b + (half - 1) * (Len(t) \div 2)]]

GuidanceMixSwapped(cond, uncond, scale) ==
    [b \in 1..Len(uncond) |-> [p \in 1..Len(uncond[b]) |-> [c \in 1..Len(uncond[b][p]) |->
        cond[b][p][c] + scale * (uncond[b][p][c] - cond[b][p][c])]]]

(* uncond_logits + guidance_scale * (cond_logits - uncond_logits) *)
GuidanceMix(cond, uncond, scale) ==
    [b \in 1..Len(uncond) |-> [p \in 1..Len(uncond[b]) |-> [c \in 1..Len(uncond[b][p]) |->
        uncond[b][p][c] + scale * (cond[b][p][c] - uncond[b][p][c])]]]

(* torch.zeros_like(encoder_hidden_states) *)
ZerosLike(ehs) == [b \in 1..Len(ehs) |-> 0]

(* torch.cat([class_ids[:, None], input_ids], dim=1) *)
PrependClass(cls, ids) == [b \in 1..Len(ids) |-> <<cls[b]>> \o ids[b]]

(* the guard of the classifier-free-guidance branch *)
UseGuidance(ehs, guidance_scale) == ehs # None /\ guidance_scale > 0

(* the forward call of a round: its outcome, and how it was invoked *)
ModelCallWith(model_in, ehs, uncond_encoder_states, guidance_scale) ==
    IF UseGuidance(ehs, guidance_scale)
    THEN forward(model_in \o model_in, ehs \o uncond_encoder_states)
    ELSE forward(model_in, ehs)

ModelCall(model_in, ehs, guidance_scale) ==
    ModelCallWith(model_in, ehs, IF ehs = None THEN None ELSE ZerosLike(ehs), guidance_scale)

(* "prepend class token" .. "remove class token": the logits that sampling *)
(* uses and the grid after the class token is cut off again.  cls is None  *)
(* when class_ids was not passed.                                          *)
RoundLogitsWith(ids, cls, ehs, uncond_encoder_states, guidance_scale) ==
    LET model_in == IF cls # None THEN PrependClass(cls, ids) ELSE ids
        out == ModelCallWith(model_in, ehs, uncond_encoder_states, guidance_scale)
        raw == IF UseGuidance(ehs, guidance_scale)
               THEN GuidanceMix(CutChannels(Chunk(out.logits, 1)),
                                CutChannels(Chunk(out.logits, 2)), guidance_scale)
               ELSE CutChannels(out.logits)
    IN  IF ids = None /\ (cls # None \/ UseGuidance(ehs, guidance_scale))
        THEN [error |-> "TypeError", fwd |-> Outcome("notcalled", <<>>, None),
              model_in |-> None, embeddings |-> None, logits |-> None, input_ids |-> None]
        ELSE IF out.error # "none"
        THEN [error |-> out.error, fwd |-> out, model_in |-> model_in,
              embeddings |-> IF UseGuidance(ehs, guidance_scale) THEN ehs \o uncond_encoder_states ELSE ehs,
              logits |-> None, input_ids |-> None]
        ELSE [error |-> "none", fwd |-> [out EXCEPT !.logits = None], model_in |-> model_in,
              embeddings |-> IF UseGuidance(ehs, guidance_scale) THEN ehs \o uncond_encoder_states ELSE ehs,
              logits |-> IF cls # None THEN [b \in 1..Len(raw) |-> Rest(raw[b])] ELSE raw,
              input_ids |-> IF cls # None THEN [b \in 1..Len(model_in) |-> Rest(model_in[b])]
                            ELSE model_in]

(* the round with uncond_encoder_states = torch.zeros_like(encoder_hidden_states) *)
RoundLogits(ids, cls, ehs, guidance_scale) ==
    RoundLogitsWith(ids, cls, ehs, IF ehs = None THEN None ELSE ZerosLike(ehs), guidance_scale)

(* ------------------------------ softmax -------------------------------- *)
(* softmax weights of one position's logits, up to the common denominator; *)
(* base 2 stands for base e                                                *)
Weight(l, c) == Pow2(l[c] - MinSeq(l))

TotalWeight(l) == SumSeq([c \in 1..Len(l) |-> Weight(l, c)])

(* softmax(l)[c] as an exact rational *)
Softmax(l, c) == Rat(Weight(l, c), TotalWeight(l))

(* logits.softmax(dim=-1) *)
Probs(logits) ==
    [b \in 1..Len(logits) |-> [p \in 1..Len(logits[b]) |-> [c \in 1..Len(logits[b][p]) |->
        Softmax(logits[b][p], c)]]]

(* ------------------------- sampling.py (selection) --------------------- *)
(* Where the random draws of a decode round come from: torch.multinomial   *)
(* and mask_by_random_topk are called without the generator that           *)
(* generate2 receives in **kwargs.                                         *)
RandomSource == "ambient"

(* the stream of an injected torch.Generator: draw number k under a seed   *)
GeneratorDraw(seed, k, range) == (seed + 2 * k + 1) % range

PinnedLowest == [pinned |-> FALSE, p |-> [n |-> 0, d |-> 1]]

(* confidence of one position: pinned above everything, or a probability   *)
Pinned == [pinned |-> TRUE, p |-> Rat(1, 1)]

Conf(prob) == [pinned |-> FALSE, p |-> prob]

(* can position p end up with a perturbed score no higher than q's:        *)
(* score + temperature * noise, the noise unbounded, ties broken either way *)
CanBeLower(conf, p, q, temp) ==
    \/ conf[q].pinned
    \/ ~conf[p].pinned /\ (temp.n # 0 \/ RatLe(conf[p].p, conf[q].p))

(* mask_by_random_topk(mask_len, selected_probs, temperature) for one row: *)
(* the sets of mask_len positions that can have the lowest perturbed score *)
mask_by_random_topk(mask_len, conf, temp) ==
    {M \in SUBSET (1..Len(conf)) :
        /\ Cardinality(M) = mask_len
        /\ \A p \in M : \A q \in (1..Len(conf)) \ M : CanBeLower(conf, p, q, temp)}

(* ------------------------------ the caller ----------------------------- *)
(* a tensor the caller may pass as input_ids *)
CallerGrid == <<<<0>>>>

Args == [fn : {"generate", "generate2"},
         input_ids : {None, CallerGrid},
         temperature : {0, MaxTemperature},
         timesteps : (-1)..MaxTimesteps,
         guidance_scale : 0..MaxGuidance,
         generator : {0}]

(* batches of two items are explored on one-token grids *)
BatchSizes(n) == IF n = 1 THEN {1, 2} ELSE {1}

(* all tuples that take their i-th element from the i-th set *)
RECURSIVE Rows(_)
Rows(sets) ==
    IF Len(sets) = 0 THEN {<<>>}
    ELSE {<<h>> \o t : h \in Head(sets), t \in Rows(Tail(sets))}

NoRound == [step |-> -1, fwd |-> Outcome("notcalled", <<>>, None), model_in |-> None,
            embeddings |-> None, logits |-> None, grid_in |-> None, pred_ids |-> None,
            unknown_count |-> None, mask_len |-> None, masked_indices |-> None,
            temperature |-> Rat(0, 1)]

NoCall == [pc |-> "idle", result |-> None, error |-> "none", entry |-> None,
           class_token |-> None]

NoArgs == [fn |-> "none", input_ids |-> None, temperature |-> 1, timesteps |-> 0,
           guidance_scale |-> 0, generator |-> 0]

(* PipelineMuse.__call__ before it is called *)
NoPipeline == [pc |-> "idle", text |-> None, negative_text |-> None, class_ids |-> None,
               timesteps |-> 0, use_maskgit_generate |-> TRUE, invoked |-> <<>>,
               error |-> "none", images |-> None]

(* the two calls of generate2 that differ in **kwargs, before they start *)
NoTwin == [pc |-> "idle", args |-> NoArgs, kwargs |-> None, class_ids |-> None,
           encoder_hidden_states |-> None, step |-> 0, runs |-> None]

(* the conditioning tensors a caller can pass, None for an argument left   *)
(* unset: class ids, and one embedding per batch item                      *)
ClassIdTensors(n) ==
    {None} \cup UNION {[1..B -> {0, NumClasses - 1}] : B \in BatchSizes(n)}

EmbeddingTensors(n) ==
    {None} \cup UNION {[1..B -> 1..MaxEmbedding] : B \in BatchSizes(n)}

Init ==
    /\ config \in Configs
    /\ class_ids = None
    /\ encoder_hidden_states = None
    /\ args = NoArgs
    /\ call = 0
    /\ pc = "idle"
    /\ entry = None
    /\ input_ids = None
    /\ scores = None
    /\ step = 0
    /\ temperature = Rat(0, 1)
    /\ sampled_ids = None
    /\ round_log = NoRound
    /\ result = None
    /\ error = "none"
    /\ prev = NoCall
    /\ pipe = NoPipeline
    /\ twin = NoTwin

(* position 0 of every row of the model input of a round, when a class     *)
(* token was prepended in it                                               *)
ClassToken(log) ==
    IF class_ids # None /\ log.model_in # None
    THEN [b \in 1..Len(class_ids) |-> log.model_in[b][1]]
    ELSE None

(* the exception leaves the function: its locals are gone *)
Raise(err, log) ==
    /\ pc' = "raised"
    /\ error' = err
    /\ result' = None
    /\ round_log' = log
    /\ input_ids' = None
    /\ scores' = None
    /\ sampled_ids' = None
    /\ step' = 0
    /\ temperature' = Rat(0, 1)

Return(grid) ==
    /\ pc' = "returned"
    /\ error' = "none"
    /\ result' = grid
    /\ input_ids' = None
    /\ scores' = None
    /\ sampled_ids' = None
    /\ step' = 0
    /\ temperature' = Rat(0, 1)
    /\ UNCHANGED round_log

(* class_ids += self.config.codebook_size: in place, on the caller's tensor *)
ShiftClassIds(cls) == [b \in 1..Len(cls) |-> cls[b] + config.codebook_size]

(* the grid the function starts from: built only when input_ids was passed *)
InitialGrid(arg_input_ids, batch_size) ==
    IF arg_input_ids # None
    THEN Full(batch_size, Full(config.num_vq_tokens, config.mask_token_id))
    ELSE arg_input_ids

(* generate / generate2 up to the loop, called with arguments a, the       *)
(* caller's class id tensor cls and embeddings ehs: batch size, class id   *)
(* shift, grid, scores                                                     *)
Enter(a, cls, ehs) ==
    /\ args' = a
    /\ call' = call + 1
    /\ entry' = cls
    /\ encoder_hidden_states' = ehs
    /\ IF cls = None /\ ehs = None
       THEN /\ Raise("AttributeError", NoRound)
            /\ class_ids' = cls
       ELSE LET batch_size == IF cls # None THEN Len(cls) ELSE Len(ehs)
            IN  /\ class_ids' = IF cls # None THEN ShiftClassIds(cls) ELSE cls
                /\ input_ids' = InitialGrid(a.input_ids, batch_size)
                /\ scores' = IF a.fn = "generate"
                             THEN Full(batch_size, Full(config.num_vq_tokens, Rat(0, 1)))
                             ELSE None
                /\ temperature' = Rat(a.temperature, 1)
                /\ step' = 0
                /\ sampled_ids' = None
                /\ round_log' = NoRound
                /\ pc' = "loop"
                /\ result' = None
                /\ error' = "none"
    /\ UNCHANGED config

(* a call with any arguments and any conditioning tensors *)
Call ==
    /\ pc = "idle"
    /\ pipe.pc = "idle"
    /\ \E a \in Args :
       \E cls \in ClassIdTensors(config.num_vq_tokens) :
       \E ehs \in EmbeddingTensors(config.num_vq_tokens) : Enter(a, cls, ehs)
    /\ prev' = NoCall
    /\ UNCHANGED <<pipe, twin>>

(* the caller calls again with the same arguments and the same tensors *)
CallAgain ==
    /\ pc \in {"returned", "raised"}
    /\ call = 1
    /\ Enter(args, class_ids, encoder_hidden_states)
    /\ prev' = [pc |-> pc, result |-> result, error |-> error, entry |-> entry,
                class_token |-> ClassToken(round_log)]
    /\ UNCHANGED <<pipe, twin>>

(* ------------------------- the decode loop ----------------------------- *)
LoopDoneEarly(stp, timesteps) == stp >= timesteps - 1

(* range(timesteps) is exhausted: stp rounds have run *)
LoopDone(stp, timesteps) == stp >= timesteps

(* ------------------------- generate2 (Policy B) ------------------------ *)
(* the grids torch.multinomial can return for logits: every channel has a  *)
(* positive probability under softmax                                      *)
Multinomial(logits) ==
    {d \in [1..Len(logits) -> [1..Len(logits[1]) -> 0..(Len(logits[1][1]) - 1)]] :
        RandomSource = "generator" =>
            \A b \in 1..Len(logits) : \A p \in 1..Len(logits[1]) :
                d[b][p] = GeneratorDraw(args.generator, step + p + b, Len(logits[1][1]))}

WhereSwapped(cond, a, b) ==
    [i \in 1..Len(b) |-> [p \in 1..Len(b[i]) |-> IF cond[i][p] THEN b[i][p] ELSE a[i][p]]]

(* torch.where(cond, a, b) on grids of one shape *)
Where(cond, a, b) == [i \in 1..Len(b) |-> [p \in 1..Len(b[i]) |-> IF cond[i][p] THEN a[i][p] ELSE b[i][p]]]

SameShape(a, b) == Len(a) = Len(b) /\ \A i \in 1..Len(a) : Len(a[i]) = Len(b[i])

(* input_ids == mask_token_id *)
IsMask(ids) == [b \in 1..Len(ids) |-> [p \in 1..Len(ids[b]) |-> ids[b][p] = config.mask_token_id]]

(* unknown_map.sum(dim=-1) *)
CountTrue(row) == Cardinality({p \in 1..Len(row) : row[p]})

MaskLenNoFloor(unknown, seq_len, mask_ratio) ==
    Min2(unknown - 1, FloorTimes(seq_len, mask_ratio))

(* max(1, min(unknown - 1, floor(seq_len * mask_ratio))) *)
MaskLen(unknown, seq_len, mask_ratio) ==
    Max2(1, Min2(unknown - 1, FloorTimes(seq_len, mask_ratio)))

(* temperature = temperature * (1.0 - ratio), ratio = (step + 1) / timesteps *)
AnnealedTemperature2(temp, stp, timesteps) ==
    RatMul(temp, Rat(timesteps - (stp + 1), timesteps))

(* torch.gather(probs, -1, ids) needs every id to be a channel of probs *)
GatherOk(logits, ids) ==
    \A b \in 1..Len(ids) : \A p \in 1..Len(ids[b]) :
        ids[b][p] >= 0 /\ ids[b][p] < Len(logits[b][p])

(* the probability of the token kept at each position, known positions     *)
(* overwritten with the largest float                                      *)
SelectedProbs(probs, ids, unknown_map) ==
    [b \in 1..Len(ids) |-> [p \in 1..Len(ids[b]) |->
        IF unknown_map[b][p] THEN Conf(probs[b][p][ids[b][p] + 1]) ELSE Pinned]]

(* one iteration of the loop of generate2 *)
Generate2Round ==
    /\ pc = "loop"
    /\ args.fn = "generate2"
    /\ ~LoopDone(step, args.timesteps)
    /\ \E lg \in {RoundLogits(input_ids, class_ids, encoder_hidden_states, args.guidance_scale)} :
       \E log \in {[NoRound EXCEPT !.step = step, !.fwd = lg.fwd, !.model_in = lg.model_in,
                                   !.embeddings = lg.embeddings, !.logits = lg.logits,
                                   !.grid_in = input_ids]} :
       IF lg.error # "none"
       THEN Raise(lg.error, log)
       ELSE IF ~SameShape(lg.logits, lg.input_ids)
       THEN Raise("RuntimeError", log)
       ELSE \E probs \in {Probs(lg.logits)} :
            \E unknown_map \in {IsMask(lg.input_ids)} :
            \E mask_len \in {[b \in 1..Len(unknown_map) |->
                               MaskLen(CountTrue(unknown_map[b]), config.num_vq_tokens,
                                       cosine_schedule(step + 1, args.timesteps))]} :
            \E temp \in {AnnealedTemperature2(temperature, step, args.timesteps)} :
            \E ids \in {Where(unknown_map, drawn, lg.input_ids) : drawn \in Multinomial(lg.logits)} :
                 IF ~GatherOk(lg.logits, ids)
                 THEN Raise("RuntimeError", log)
                 ELSE
                 \E selected_probs \in {SelectedProbs(probs, ids, unknown_map)} :
                 \E masking \in Rows([b \in 1..Len(ids) |->
                                 mask_by_random_topk(mask_len[b], selected_probs[b], temp)]) :
                     /\ sampled_ids' = ids
                     /\ temperature' = temp
                     /\ input_ids' = [b \in 1..Len(ids) |-> [p \in 1..Len(ids[b]) |->
                                        IF p \in masking[b] THEN config.mask_token_id ELSE ids[b][p]]]
                     /\ step' = step + 1
                     /\ round_log' = [log EXCEPT !.pred_ids = ids,
                                        !.unknown_count = [b \in 1..Len(ids) |-> CountTrue(unknown_map[b])],
                                        !.mask_len = mask_len, !.temperature = temp]
                     /\ UNCHANGED <<pc, result, error, scores>>
    /\ UNCHANGED <<config, class_ids, encoder_hidden_states, args, call, entry, prev, pipe, twin>>

(* the loop of generate2 is over: return sampled_ids, which no round has   *)
(* bound when timesteps < 1                                                *)
Generate2Return ==
    /\ pc = "loop"
    /\ args.fn = "generate2"
    /\ LoopDone(step, args.timesteps)
    /\ IF args.timesteps < 1
       THEN Raise("UnboundLocalError", round_log)
       ELSE Return(sampled_ids)
    /\ UNCHANGED <<config, class_ids, encoder_hidden_states, args, call, entry, prev, pipe, twin>>

(* ------------------------- generate (Policy A) ------------------------- *)
(* topk_filter_thres = 0.9, in tenths *)
TopkFilterThres == 9

(* top_k(logits, thres) for one position: the channels left unfiltered,    *)
(* those ahead of which less than thres of the probability mass lies       *)
top_k(l, thres) ==
    {c \in 1..Len(l) :
        10 * SumSeq([j \in 1..Len(l) |-> IF Weight(l, j) > Weight(l, c) THEN Weight(l, j) ELSE 0])
            < thres * TotalWeight(l)}

(* gumbel_sample for one position: any unfiltered channel, the largest     *)
(* logit only when the temperature is 0; channels are 0-based              *)
gumbel_sample(l, kept, temp) ==
    {c - 1 : c \in {k \in kept : temp.n # 0 \/ \A j \in kept : l[j] <= l[k]}}

NumTokenMaskedNoFloor(stp, timesteps, seq_len) ==
    FloorTimes(seq_len, cosine_schedule(stp, Max2(timesteps - 1, 1)))

(* max(int(rand_mask_prob * seq_len), 1) at timestep = linspace(0, 1, timesteps)[stp] *)
NumTokenMasked(stp, timesteps, seq_len) ==
    Max2(FloorTimes(seq_len, cosine_schedule(stp, Max2(timesteps - 1, 1))), 1)

TopkLowest(row, n) ==
    {M \in SUBSET (1..Len(row)) :
        /\ Cardinality(M) = n
        /\ \A p \in M : \A q \in (1..Len(row)) \ M : RatLe(row[p], row[q])}

(* scores.topk(n).indices for one row: n positions with the highest scores *)
Topk(row, n) ==
    {M \in SUBSET (1..Len(row)) :
        /\ Cardinality(M) = n
        /\ \A p \in M : \A q \in (1..Len(row)) \ M : RatLe(row[q], row[p])}

(* the annealing with steps_until_x0 counted from timesteps down to 1 *)
AnnealedTemperatureFromTimesteps(start, stp, timesteps) ==
    Rat(start * (timesteps - stp), timesteps)

(* starting_temperature * (steps_until_x0 / timesteps) *)
AnnealedTemperature(start, stp, timesteps) == Rat(start * ((timesteps - 1) - stp), timesteps)

(* 1 - probs_without_temperature.gather(2, pred_ids) at one position *)
Score(prob) == Rat(prob.d - prob.n, prob.d)

(* gumbel_sample(top_k(logits, thres), temperature) over a whole grid *)
PredIds(logits, thres, temp) ==
    Rows([b \in 1..Len(logits) |->
            Rows([p \in 1..Len(logits[b]) |->
                    gumbel_sample(logits[b][p], top_k(logits[b][p], thres), temp)])])

(* one iteration of the loop of generate *)
GenerateRound ==
    /\ pc = "loop"
    /\ args.fn = "generate"
    /\ ~LoopDone(step, args.timesteps)
    /\ IF input_ids = None
       THEN Raise("AttributeError", [NoRound EXCEPT !.step = step])
       ELSE \E masked_indices \in
                Rows([b \in 1..Len(scores) |->
                        Topk(scores[b], NumTokenMasked(step, args.timesteps, config.num_vq_tokens))]) :
            \E grid \in {[b \in 1..Len(input_ids) |-> [p \in 1..Len(input_ids[b]) |->
                            IF p \in masked_indices[b] THEN config.mask_token_id
                            ELSE input_ids[b][p]]]} :
            \E lg \in {RoundLogits(grid, class_ids, encoder_hidden_states, args.guidance_scale)} :
            \E log \in {[NoRound EXCEPT !.step = step, !.fwd = lg.fwd, !.model_in = lg.model_in,
                                        !.embeddings = lg.embeddings, !.logits = lg.logits,
                                        !.grid_in = grid, !.masked_indices = masked_indices]} :
            \E temp \in {AnnealedTemperature(args.temperature, step, args.timesteps)} :
            IF lg.error # "none"
            THEN Raise(lg.error, log)
            ELSE \E probs_without_temperature \in {Probs(lg.logits)} :
                 \E pred_ids \in PredIds(lg.logits, TopkFilterThres, temp) :
                 IF ~SameShape(pred_ids, lg.input_ids)
                 THEN Raise("RuntimeError", log)
                 ELSE /\ input_ids' = Where(IsMask(lg.input_ids), pred_ids, lg.input_ids)
                      /\ scores' = [b \in 1..Len(pred_ids) |-> [p \in 1..Len(pred_ids[b]) |->
                                      Score(probs_without_temperature[b][p][pred_ids[b][p] + 1])]]
                      /\ temperature' = temp
                      /\ step' = step + 1
                      /\ round_log' = [log EXCEPT !.pred_ids = pred_ids, !.temperature = temp]
                      /\ UNCHANGED <<pc, result, error, sampled_ids>>
    /\ UNCHANGED <<config, class_ids, encoder_hidden_states, args, call, entry, prev, pipe, twin>>

(* the loop of generate is over (torch.linspace rejects a negative number  *)
(* of steps): return input_ids                                             *)
GenerateReturn ==
    /\ pc = "loop"
    /\ args.fn = "generate"
    /\ LoopDone(step, args.timesteps)
    /\ IF args.timesteps < 0
       THEN Raise("RuntimeError", round_log)
       ELSE Return(input_ids)
    /\ UNCHANGED <<config, class_ids, encoder_hidden_states, args, call, entry, prev, pipe, twin>>

(* ------------------------- PipelineMuse.__call__ ----------------------- *)
(* the parameters of generate, which takes no **kwargs *)
GenerateParams ==
    {"input_ids", "class_ids", "encoder_hidden_states", "temperature", "topk_filter_thres",
     "can_remask_prev_masked", "timesteps", "guidance_scale", "noise_schedule"}

(* the parameters of generate2, which takes **kwargs besides *)
Generate2Params ==
    {"input_ids", "class_ids", "encoder_hidden_states", "temperature", "timesteps",
     "guidance_scale", "noise_schedule"}

(* Python binds the keywords kw of a call to fn, or raises a TypeError *)
BindsArguments(fn, kw) ==
    IF fn = "generate2" THEN TRUE ELSE kw \subseteq GenerateParams

(* the keywords of the call of generate: model_inputs and the five others *)
PipelineKwargs(text) ==
    (IF text = None THEN {"class_ids"} ELSE {"encoder_hidden_states", "negative_embeds"})
        \cup {"timesteps", "guidance_scale", "temperature", "topk_filter_thres", "generator"}

(* the two checks that open __call__ *)
CheckOnlyNeither(text, cls) ==
    IF text = None /\ cls = None THEN "ValueError" ELSE "none"

PipelineCheck(text, cls) ==
    IF text = None /\ cls = None THEN "ValueError"
    ELSE IF text # None /\ cls # None THEN "ValueError"
    ELSE "none"

(* stand-in for tokenizer and text encoder: one embedding per prompt *)
TextEncoder(text) == [b \in 1..Len(text) |-> text[b]]

(* repeat_interleave(n) / repeat(1, n, 1).view(bs * n, ..): n copies of each item *)
Repeat(t, n) == [b \in 1..(Len(t) * n) |-> t[((b - 1) \div n) + 1]]

(* the prompts and class id lists a caller can pass *)
Prompts == {None} \cup {<<e>> : e \in 1..MaxEmbedding}

ClassIdLists == {None} \cup {<<0>>, <<NumClasses - 1>>}

(* the components __call__ has invoked before it calls the transformer *)
InvokedForText(text, negative_text) ==
    IF text = None THEN <<>>
    ELSE IF negative_text = None THEN <<"tokenizer", "text_encoder">>
    ELSE <<"tokenizer", "text_encoder", "tokenizer", "text_encoder">>

(* __call__ up to and including the call of generate / generate2, which    *)
(* passes no input_ids                                                     *)
PipelineCall ==
    /\ pc = "idle"
    /\ pipe.pc = "idle"
    /\ \E text \in Prompts : \E negative_text \in {None, <<1>>} : \E cls \in ClassIdLists :
       \E use_maskgit_generate \in BOOLEAN : \E timesteps \in (-1)..MaxTimesteps :
       \E started \in {[NoPipeline EXCEPT !.text = text, !.negative_text = negative_text,
                                          !.class_ids = cls, !.timesteps = timesteps,
                                          !.use_maskgit_generate = use_maskgit_generate]} :
       IF PipelineCheck(text, cls) # "none"
       THEN /\ pipe' = [started EXCEPT !.pc = "raised", !.error = PipelineCheck(text, cls)]
            /\ UNCHANGED <<config, class_ids, encoder_hidden_states, args, call, pc, entry,
                           input_ids, scores, step, temperature, sampled_ids, round_log,
                           result, error>>
       ELSE \E fn \in {IF use_maskgit_generate THEN "generate2" ELSE "generate"} :
            IF ~BindsArguments(fn, PipelineKwargs(text))
            THEN /\ pipe' = [started EXCEPT !.pc = "raised", !.error = "TypeError",
                                            !.invoked = InvokedForText(text, negative_text)]
                 /\ UNCHANGED <<config, class_ids, encoder_hidden_states, args, call, pc,
                                entry, input_ids, scores, step, temperature, sampled_ids,
                                round_log, result, error>>
            ELSE \E num_images_per_prompt \in BatchSizes(config.num_vq_tokens) :
                 \E a \in {x \in Args : x.fn = fn /\ x.input_ids = None /\ x.timesteps = timesteps} :
                 /\ pipe' = [started EXCEPT !.pc = "generating",
                                            !.invoked = InvokedForText(text, negative_text)
                                                            \o <<"transformer">>]
                 /\ Enter(a,
                          IF cls = None THEN None ELSE Repeat(cls, num_images_per_prompt),
                          IF text = None THEN None
                          ELSE Repeat(TextEncoder(text), num_images_per_prompt))
    /\ prev' = NoCall
    /\ UNCHANGED twin

(* the rest of __call__: an exception of the transformer leaves __call__,  *)
(* a returned grid goes to vae.decode_code                                 *)
PipelineEnd ==
    /\ pipe.pc = "generating"
    /\ pc \in {"returned", "raised"}
    /\ pipe' = IF pc = "returned"
               THEN [pipe EXCEPT !.pc = "decoded", !.invoked = @ \o <<"vae">>,
                                 !.images = result]
               ELSE [pipe EXCEPT !.pc = "raised", !.error = error]
    /\ UNCHANGED <<config, class_ids, encoder_hidden_states, args, call, pc, entry,
                   input_ids, scores, step, temperature, sampled_ids, round_log, result,
                   error, prev, twin>>

(* ------------ two calls of generate2 that differ in **kwargs ----------- *)
(* the keywords of __call__ that generate2 has no parameter for: they land *)
(* in **kwargs                                                             *)
KwargsNames == PipelineKwargs(<<1>>) \ Generate2Params

(* the values of **kwargs of the second call: topk_filter_thres and        *)
(* generator are not the defaults, and negative_embeds, which has the      *)
(* shape of encoder_hidden_states, is passed on the text path only         *)
Kwargs(ehs) ==
    [negative_embeds : {None} \cup (IF ehs = None THEN {}
                                     ELSE {Full(Len(ehs), e) : e \in 1..MaxEmbedding}),
     topk_filter_thres : {TopkFilterThres - 1},
     generator : {1}]

(* what __call__ passes when the caller leaves its own arguments unset *)
DefaultKwargs ==
    [negative_embeds |-> None, topk_filter_thres |-> TopkFilterThres, generator |-> 0]

UncondFromNegative(ehs, kwargs) ==
    IF kwargs.negative_embeds = None THEN ZerosLike(ehs) ELSE kwargs.negative_embeds

(* uncond_encoder_states = torch.zeros_like(encoder_hidden_states); kwargs *)
(* are in scope and not read                                               *)
UncondEncoderStates(ehs, kwargs) == ZerosLike(ehs)

(* the locals of one of the two calls *)
NoRun == [pc |-> "loop", input_ids |-> None, sampled_ids |-> None,
          temperature |-> Rat(0, 1), embeddings |-> None, result |-> None,
          error |-> "none"]

(* the exception leaves the call *)
RunRaised(err, embeddings) ==
    [NoRun EXCEPT !.pc = "raised", !.error = err, !.embeddings = embeddings]

(* what ends the round of one call before sampling: the error of the      *)
(* forward pass, or logits that do not have the shape of the grid          *)
RoundError(lg) ==
    IF lg.error # "none" THEN lg.error
    ELSE IF ~SameShape(lg.logits, lg.input_ids) THEN "RuntimeError"
    ELSE "none"

(* torch.where(unknown_map, sampled_ids, input_ids), drawn being what      *)
(* torch.multinomial returns                                               *)
SampledIds(lg, drawn) == Where(IsMask(lg.input_ids), drawn, lg.input_ids)

(* the round of one call after sampling: the annealed temperature and the  *)
(* maskings mask_by_random_topk can return                                 *)
Generate2Sampling(lg, run, stp, a, ids) ==
    LET unknown_map == IsMask(lg.input_ids)
        temp == AnnealedTemperature2(run.temperature, stp, a.timesteps)
        selected_probs == SelectedProbs(Probs(lg.logits), ids, unknown_map)
    IN  [sampled_ids |-> ids, temperature |-> temp,
         maskings |->
             Rows([b \in 1..Len(ids) |->
                     mask_by_random_topk(
                         MaskLen(CountTrue(unknown_map[b]), config.num_vq_tokens,
                                 cosine_schedule(stp + 1, a.timesteps)),
                         selected_probs[b], temp)])]

(* input_ids = torch.where(masking, mask_token_id, sampled_ids) *)
RunMasked(sampling, masking, embeddings) ==
    [NoRun EXCEPT !.sampled_ids = sampling.sampled_ids,
                  !.temperature = sampling.temperature,
                  !.embeddings = embeddings,
                  !.input_ids = [b \in 1..Len(sampling.sampled_ids) |->
                                   [p \in 1..Len(sampling.sampled_ids[b]) |->
                                       IF p \in masking[b] THEN config.mask_token_id
                                       ELSE sampling.sampled_ids[b][p]]]]

(* the logits of the round of call i *)
TwinLogits(i) ==
    RoundLogitsWith(twin.runs[i].input_ids, twin.class_ids, twin.encoder_hidden_states,
                    IF twin.encoder_hidden_states = None THEN None
                    ELSE UncondEncoderStates(twin.encoder_hidden_states, twin.kwargs[i]),
                    twin.args.guidance_scale)

(* generate2 is called twice, with equal tensors and equal arguments but   *)
(* for what lands in **kwargs; the conditioning is class ids or            *)
(* embeddings, as __call__ passes them                                     *)
TwinCall ==
    /\ pc = "idle"
    /\ pipe.pc = "idle"
    /\ twin.pc = "idle"
    /\ \E a \in {x \in Args : x.fn = "generate2" /\ x.timesteps >= 1} :
       \E cls \in ClassIdTensors(config.num_vq_tokens) :
       \E ehs \in EmbeddingTensors(config.num_vq_tokens) :
       \E kwargs \in Kwargs(ehs) :
          /\ (cls = None) # (ehs = None)
          /\ twin' = [NoTwin EXCEPT
                 !.pc = "loop", !.args = a, !.kwargs = <<DefaultKwargs, kwargs>>,
                 !.class_ids = IF cls # None THEN ShiftClassIds(cls) ELSE cls,
                 !.encoder_hidden_states = ehs,
                 !.runs = Full(2, [NoRun EXCEPT
                             !.temperature = Rat(a.temperature, 1),
                             !.input_ids = InitialGrid(a.input_ids,
                                 IF cls # None THEN Len(cls) ELSE Len(ehs))])]
    /\ UNCHANGED <<config, class_ids, encoder_hidden_states, args, call, pc, entry,
                   input_ids, scores, step, temperature, sampled_ids, round_log, result,
                   error, prev, pipe>>

(* one iteration of the loop of generate2 in both calls, which draw the    *)
(* same random values: the same grid from torch.multinomial, and the same  *)
(* masking wherever the second call can arrive at it                       *)
TwinRound ==
    /\ twin.pc = "loop"
    /\ ~LoopDone(twin.step, twin.args.timesteps)
    /\ \E lg1 \in {TwinLogits(1)} : \E lg2 \in {TwinLogits(2)} :
       \E e1 \in {RoundError(lg1)} : \E e2 \in {RoundError(lg2)} :
       IF e1 # "none" \/ e2 # "none"
       THEN twin' = [twin EXCEPT !.pc = "done",
                        !.runs = <<IF e1 # "none" THEN RunRaised(e1, lg1.embeddings)
                                   ELSE twin.runs[1],
                                   IF e2 # "none" THEN RunRaised(e2, lg2.embeddings)
                                   ELSE twin.runs[2]>>]
       ELSE \E ids \in {<<SampledIds(lg1, drawn), SampledIds(lg2, drawn)>> :
                            drawn \in Multinomial(lg1.logits)} :
            IF ~GatherOk(lg1.logits, ids[1]) \/ ~GatherOk(lg2.logits, ids[2])
            THEN twin' = [twin EXCEPT !.pc = "done",
                             !.runs = <<IF ~GatherOk(lg1.logits, ids[1])
                                        THEN RunRaised("RuntimeError", lg1.embeddings)
                                        ELSE twin.runs[1],
                                        IF ~GatherOk(lg2.logits, ids[2])
                                        THEN RunRaised("RuntimeError", lg2.embeddings)
                                        ELSE twin.runs[2]>>]
            ELSE \E s1 \in {Generate2Sampling(lg1, twin.runs[1], twin.step, twin.args, ids[1])} :
                 \E s2 \in {Generate2Sampling(lg2, twin.runs[2], twin.step, twin.args, ids[2])} :
                 \E m1 \in s1.maskings :
                 \E m2 \in (IF m1 \in s2.maskings THEN {m1} ELSE s2.maskings) :
                    twin' = [twin EXCEPT !.step = @ + 1,
                                !.runs = <<RunMasked(s1, m1, lg1.embeddings),
                                           RunMasked(s2, m2, lg2.embeddings)>>]
    /\ UNCHANGED <<config, class_ids, encoder_hidden_states, args, call, pc, entry,
                   input_ids, scores, step, temperature, sampled_ids, round_log, result,
                   error, prev, pipe>>

(* return sampled_ids, which no round has bound when timesteps < 1 *)
RunReturned(run, timesteps) ==
    IF timesteps < 1
    THEN RunRaised("UnboundLocalError", run.embeddings)
    ELSE [NoRun EXCEPT !.pc = "returned", !.result = run.sampled_ids,
                       !.embeddings = run.embeddings]

(* the loop is over in both calls *)
TwinReturn ==
    /\ twin.pc = "loop"
    /\ LoopDone(twin.step, twin.args.timesteps)
    /\ twin' = [twin EXCEPT !.pc = "done",
                   !.runs = [i \in 1..2 |-> RunReturned(twin.runs[i], twin.args.timesteps)]]
    /\ UNCHANGED <<config, class_ids, encoder_hidden_states, args, call, pc, entry,
                   input_ids, scores, step, temperature, sampled_ids, round_log, result,
                   error, prev, pipe>>

(* one call of generate or generate2 *)
Next ==
    \/ Call
    \/ GenerateRound
    \/ GenerateReturn
    \/ Generate2Round
    \/ Generate2Return

Spec == Init /\ [][Next]_vars

(* two consecutive calls with the same arguments and tensors *)
NextTwoCalls ==
    \/ Next
    \/ CallAgain

SpecTwoCalls == Init /\ [][NextTwoCalls]_vars

(* calls of the transformer, directly or through PipelineMuse.__call__ *)
NextPipeline ==
    \/ Next
    \/ PipelineCall
    \/ PipelineEnd

SpecPipeline == Init /\ [][NextPipeline]_vars

(* two calls of generate2 that differ in **kwargs only, in lockstep *)
NextTwin ==
    \/ TwinCall
    \/ TwinRound
    \/ TwinReturn

SpecTwin == Init /\ [][NextTwin]_vars

(* ============================== claims ================================= *)
(* a round ran through sampling, and its record is in round_log *)
RoundDone == round_log.pred_ids # None

BatchSize == IF class_ids # None THEN Len(class_ids) ELSE Len(encoder_hidden_states)

CompleteGrid(g) ==
    /\ Len(g) = BatchSize
    /\ \A b \in 1..Len(g) :
          /\ Len(g[b]) = config.num_vq_tokens
          /\ \A p \in 1..Len(g[b]) :
                g[b][p] # config.mask_token_id /\ g[b][p] >= 0 /\ g[b][p] < config.codebook_size

(* C1: the grid that generate or generate2 returns after the terminal      *)
(* round (timesteps >= 1) has shape (batch, num_vq_tokens), holds no       *)
(* mask_token_id and only values in [0, codebook_size).                    *)
C1_TerminalCompleteness ==
    (pc = "returned" /\ args.timesteps >= 1) => CompleteGrid(result)

C1_Witness ==
    /\ pc = "returned"
    /\ args.fn = "generate"
    /\ args.timesteps >= 2
    /\ config.num_vq_tokens >= 2
    /\ CompleteGrid(result)

(* C2 as stated: in every round of generate2 but the terminal one,         *)
(* 1 <= mask_len <= unknown_count - 1.                                     *)
C2_ProgressGuarantee ==
    (args.fn = "generate2" /\ RoundDone /\ round_log.step < args.timesteps - 1) =>
        \A b \in 1..Len(round_log.mask_len) :
            /\ 1 <= round_log.mask_len[b]
            /\ round_log.mask_len[b] <= round_log.unknown_count[b] - 1

(* C2 amended: in every round of generate2 but the terminal one,           *)
(* 1 <= mask_len <= max(1, unknown_count - 1): mask_len is at most         *)
(* unknown_count - 1 when two or more positions are unknown, and is 1 in a *)
(* round entered with one unknown position.                                *)
C2_ProgressGuaranteeAmended ==
    (args.fn = "generate2" /\ RoundDone /\ round_log.step < args.timesteps - 1) =>
        \A b \in 1..Len(round_log.mask_len) :
            /\ round_log.unknown_count[b] >= 1
            /\ 1 <= round_log.mask_len[b]
            /\ round_log.mask_len[b] <= Max2(1, round_log.unknown_count[b] - 1)

C2_Witness ==
    /\ args.fn = "generate2"
    /\ RoundDone
    /\ round_log.step < args.timesteps - 1
    /\ round_log.step >= 1
    /\ round_log.unknown_count[1] = 1
    /\ round_log.mask_len[1] = 1

(* C3: the temperature generate2 hands to mask_by_random_topk in round     *)
(* step is the starting temperature times (1 - (step + 1) / timesteps).    *)
C3_Temperature2 ==
    (args.fn = "generate2" /\ RoundDone) =>
        round_log.temperature =
            Rat(args.temperature * (args.timesteps - (round_log.step + 1)), args.timesteps)

(* C4: with text conditioning and guidance_scale = 0 the logits used for   *)
(* sampling are those of the forward pass with the zero-valued embedding,  *)
(* and the conditional embedding is not given to the model.                *)
C4_GuidanceZeroUnconditional ==
    (RoundDone /\ encoder_hidden_states # None /\ args.guidance_scale = 0) =>
        /\ round_log.embeddings = ZerosLike(encoder_hidden_states)
        /\ round_log.logits =
              RoundLogits(round_log.grid_in, class_ids, ZerosLike(encoder_hidden_states), 0).logits

(* C5: two calls with identical inputs and the same injected generator     *)
(* return identical grids.                                                 *)
C5_Deterministic ==
    (call = 2 /\ pc = "returned" /\ prev.pc = "returned" /\ prev.entry = entry) =>
        result = prev.result

(* C6: a call with timesteps < 1 ends in an error raised before any        *)
(* forward pass and returns nothing.                                       *)
C6_TimestepsRejected ==
    (args.timesteps < 1 /\ pc \in {"returned", "raised"}) =>
        /\ pc = "raised"
        /\ round_log.fwd.error = "notcalled"

(* C7: the grid entering round 0 is all mask_token_id, shape               *)
(* (batch, num_vq_tokens), whether or not input_ids was passed.            *)
C7_StartsAllMasked ==
    (pc = "loop" /\ step = 0 /\ args.timesteps >= 1) =>
        input_ids = Full(BatchSize, Full(config.num_vq_tokens, config.mask_token_id))

(* C8: after a call the caller's class_ids hold the values they held       *)
(* before it, and a second call prepends the class token of the first.     *)
C8_ClassIdsUnchanged ==
    /\ (class_ids # None /\ pc = "returned") => class_ids = entry
    /\ (class_ids # None /\ call = 2 /\ prev.class_token # None /\ round_log.model_in # None) =>
          ClassToken(round_log) = prev.class_token

(* C9: with class_ids, the class token sits at position 0 of the model     *)
(* input only; logits and grid are back at num_vq_tokens positions and     *)
(* codebook_size channels for sampling; every sampled id is below          *)
(* codebook_size and the returned grid has num_vq_tokens positions.        *)
C9_ClassTokenStripped ==
    (class_ids # None /\ RoundDone) =>
        \A b \in 1..Len(class_ids) :
            /\ Len(round_log.model_in[b]) = config.num_vq_tokens + 1
            /\ round_log.model_in[b][1] = class_ids[b]
            /\ Len(round_log.grid_in[b]) = config.num_vq_tokens
            /\ Len(round_log.logits[b]) = config.num_vq_tokens
            /\ Len(round_log.pred_ids[b]) = config.num_vq_tokens
            /\ \A p \in 1..config.num_vq_tokens :
                  /\ Len(round_log.logits[b][p]) = config.codebook_size
                  /\ round_log.pred_ids[b][p] < config.codebook_size
            /\ pc = "loop" => Len(input_ids[b]) = config.num_vq_tokens
            /\ pc = "returned" => Len(result[b]) = config.num_vq_tokens

C9_Witness ==
    /\ class_ids # None
    /\ RoundDone
    /\ pc = "returned"
    /\ round_log.step >= 1
    /\ Len(result[1]) = config.num_vq_tokens

(* C10: forward, given encoder_hidden_states on a model without            *)
(* add_cross_attention, raises a configuration error before the embedding  *)
(* or any layer runs.                                                      *)
C10_CrossAttentionRejected ==
    (round_log.embeddings # None /\ round_log.model_in # None
        /\ ~config.add_cross_attention /\ round_log.fwd.error # "notcalled") =>
        /\ round_log.fwd.error = "ValueError"
        /\ round_log.fwd.stages = <<>>

(* C11: PipelineMuse.__call__ with neither text nor class_ids, and with    *)
(* both, ends in a ValueError raised before the tokenizer, the text        *)
(* encoder, the transformer or the codec is invoked; no image is returned. *)
C11_PipelineRejects ==
    (pipe.pc # "idle" /\ ((pipe.text = None) = (pipe.class_ids = None))) =>
        /\ pipe.pc = "raised"
        /\ pipe.error = "ValueError"
        /\ pipe.invoked = <<>>
        /\ pipe.images = None
        /\ call = 0

C11_Witness ==
    /\ pipe.pc = "raised"
    /\ pipe.text # None
    /\ pipe.class_ids # None
    /\ pipe.invoked = <<>>

(* the model fits the conditioning of the pipeline call: cross-attention   *)
(* for text, a class-conditioned vocabulary without it for class ids       *)
ModelFits ==
    IF pipe.text # None THEN config.add_cross_attention
    ELSE ~config.add_cross_attention /\ config.num_classes > 0

(* C12: with text only or class ids only, a fitting model and              *)
(* timesteps >= 1, __call__ reaches vae.decode_code with a token grid      *)
(* under either value of use_maskgit_generate; it does not end in an error.*)
C12_PolicySelectable ==
    (pipe.pc \in {"raised", "decoded"} /\ ((pipe.text = None) # (pipe.class_ids = None))
        /\ ModelFits /\ pipe.timesteps >= 1) =>
        /\ pipe.pc = "decoded"
        /\ pipe.images # None

(* C13: a call with timesteps = T >= 1 runs its rounds in the order        *)
(* 0, 1, .., T-1 and returns after round T-1 only; every round makes one   *)
(* forward pass through all stages (on twice the batch when guidance is    *)
(* active); the grid a round starts from is the grid the round before left *)
(* (generate re-masks positions of it first), and the returned grid is the *)
(* one of the last round.                                                  *)
C13_RoundOrder ==
    [][/\ (pc = "loop" /\ pc' = "loop") =>
            /\ step < args.timesteps
            /\ step' = step + 1
            /\ round_log'.step = step
            /\ round_log'.fwd.error = "none"
            /\ round_log'.fwd.stages[Len(round_log'.fwd.stages)] = "mlm_layer"
            /\ Cardinality({i \in 1..Len(round_log'.fwd.stages) :
                                round_log'.fwd.stages[i] = "embed"}) = 1
            /\ UseGuidance(encoder_hidden_states, args.guidance_scale) =>
                    Len(round_log'.embeddings) = 2 * Len(round_log'.grid_in)
            /\ (encoder_hidden_states # None
                    /\ ~UseGuidance(encoder_hidden_states, args.guidance_scale)) =>
                    Len(round_log'.embeddings) = Len(round_log'.grid_in)
            /\ \A b \in 1..Len(input_ids) : \A p \in 1..Len(input_ids[b]) :
                    (args.fn = "generate2" \/ p \notin round_log'.masked_indices[b]) =>
                        round_log'.grid_in[b][p] = input_ids[b][p]
       /\ (pc = "loop" /\ pc' = "returned" /\ args.timesteps >= 1) =>
            /\ step = args.timesteps
            /\ round_log.step = args.timesteps - 1
            /\ result' = IF args.fn = "generate2" THEN round_log.pred_ids ELSE input_ids
      ]_vars

C13_Witness ==
    /\ pc = "returned"
    /\ args.timesteps >= 3
    /\ round_log.step = args.timesteps - 1
    /\ UseGuidance(encoder_hidden_states, args.guidance_scale)
    /\ Len(round_log.embeddings) = 2 * Len(result)

(* C14: in generate2 a position that holds a token when a round starts     *)
(* keeps it in the round's sampled grid and is not re-masked, so it holds  *)
(* it in the grid handed to the next round and in the returned grid; the   *)
(* positions masked after a round were masked when it started.             *)
C14_KeepsDecided ==
    (args.fn = "generate2" /\ RoundDone) =>
        \A b \in 1..Len(round_log.grid_in) : \A p \in 1..Len(round_log.grid_in[b]) :
            /\ round_log.grid_in[b][p] # config.mask_token_id =>
                  /\ round_log.pred_ids[b][p] = round_log.grid_in[b][p]
                  /\ pc = "loop" => input_ids[b][p] = round_log.grid_in[b][p]
                  /\ pc = "returned" => result[b][p] = round_log.grid_in[b][p]
            /\ (pc = "loop" /\ input_ids[b][p] = config.mask_token_id) =>
                  round_log.grid_in[b][p] = config.mask_token_id

C14_Witness ==
    /\ args.fn = "generate2"
    /\ RoundDone
    /\ pc = "loop"
    /\ round_log.step >= 1
    /\ \E p \in 1..config.num_vq_tokens :
          /\ round_log.grid_in[1][p] # config.mask_token_id
          /\ input_ids[1][p] = round_log.grid_in[1][p]
    /\ \E q \in 1..config.num_vq_tokens : input_ids[1][q] = config.mask_token_id

(* C15: in generate the scores are 0 when round 0 starts; the positions    *)
(* set to mask_token_id before the forward pass of a round are exactly     *)
(* num_token_masked positions with the highest scores (all of them in      *)
(* round 0); after sampling the score of every position is                 *)
(* 1 - softmax(logits of the round)[token sampled for it in the round].    *)
C15_PolicyAScores ==
    [][(args.fn = "generate" /\ pc = "loop" /\ pc' = "loop") =>
          \A b \in 1..Len(scores) :
              /\ step = 0 =>
                    /\ \A p \in 1..Len(scores[b]) : scores[b][p] = [n |-> 0, d |-> 1]
                    /\ round_log'.masked_indices[b] = 1..config.num_vq_tokens
              /\ Cardinality(round_log'.masked_indices[b]) =
                    NumTokenMasked(step, args.timesteps, config.num_vq_tokens)
              /\ \A p \in round_log'.masked_indices[b] :
                    \A q \in (1..Len(scores[b])) \ round_log'.masked_indices[b] :
                        RatLe(scores[b][q], scores[b][p])
              /\ \A p \in 1..Len(scores[b]) :
                    /\ (round_log'.grid_in[b][p] = config.mask_token_id)
                          = (p \in round_log'.masked_indices[b])
                    /\ \A prob \in {Softmax(round_log'.logits[b][p],
                                            round_log'.pred_ids[b][p] + 1)} :
                          /\ scores'[b][p].d = prob.d
                          /\ scores'[b][p].n = prob.d - prob.n
      ]_vars

C15_Witness ==
    /\ args.fn = "generate"
    /\ RoundDone
    /\ pc = "loop"
    /\ round_log.step >= 1
    /\ config.num_vq_tokens >= 2
    /\ Cardinality(round_log.masked_indices[1]) = 1
    /\ scores[1][1] # scores[1][2]

(* C16: in generate the number of positions masked in round i is           *)
(* max(floor(cos(i / (timesteps - 1) * pi / 2) * num_vq_tokens), 1): it is *)
(* at least 1 in every round, the terminal one included, and no larger     *)
(* than in the round before.                                               *)
C16_MaskCountMonotone ==
    [][(args.fn = "generate" /\ pc = "loop" /\ pc' = "loop") =>
          \A b \in 1..Len(round_log'.masked_indices) :
              /\ Cardinality(round_log'.masked_indices[b]) =
                    Max2((config.num_vq_tokens
                            * cosine_schedule(step, Max2(args.timesteps - 1, 1))) \div CosScale, 1)
              /\ Cardinality(round_log'.masked_indices[b]) >= 1
              /\ RoundDone =>
                    Cardinality(round_log'.masked_indices[b])
                        <= Cardinality(round_log.masked_indices[b])
      ]_vars

C16_Witness ==
    /\ args.fn = "generate"
    /\ RoundDone
    /\ args.timesteps >= 3
    /\ round_log.step = args.timesteps - 1
    /\ config.num_vq_tokens >= 2
    /\ Cardinality(round_log.masked_indices[1]) = 1

(* the two halves of the guided forward pass on the model input of the     *)
(* last round, cut to codebook_size channels                               *)
GuidedOut ==
    forward(round_log.model_in \o round_log.model_in,
            encoder_hidden_states \o ZerosLike(encoder_hidden_states))

CondLogits == CutChannels(Chunk(GuidedOut.logits, 1))

UncondLogits == CutChannels(Chunk(GuidedOut.logits, 2))

(* C17: on logits cut to codebook_size channels, the guidance mix          *)
(* uncond + scale * (cond - uncond) is uncond at scale 0 and cond at       *)
(* scale 1, element by element; a round with guidance_scale = 1 samples    *)
(* from cond.                                                              *)
C17_GuidanceDegenerate ==
    (RoundDone /\ encoder_hidden_states # None) =>
        \A out \in {GuidedOut} :
            /\ out.error = "none"
            /\ \A cond \in {CutChannels(Chunk(out.logits, 1))} :
               \A uncond \in {CutChannels(Chunk(out.logits, 2))} :
                  /\ \A b \in 1..Len(cond) : \A p \in 1..Len(cond[b]) :
                        Len(cond[b][p]) = config.codebook_size
                  /\ GuidanceMix(cond, uncond, 0) = uncond
                  /\ GuidanceMix(cond, uncond, 1) = cond
                  /\ args.guidance_scale = 1 =>
                        round_log.logits = IF class_ids # None
                                           THEN [b \in 1..Len(cond) |-> Rest(cond[b])]
                                           ELSE cond

C17_Witness ==
    /\ RoundDone
    /\ encoder_hidden_states # None
    /\ args.guidance_scale = 1
    /\ CondLogits # UncondLogits
    /\ round_log.logits = CondLogits

(* C18: a call whose class_ids and encoder_hidden_states differ in batch   *)
(* size (on a class-conditioned cross-attention model, input_ids passed,   *)
(* timesteps >= 1) ends in an error raised before any forward pass.        *)
C18_BatchMismatchRejected ==
    (/\ class_ids # None /\ encoder_hidden_states # None
     /\ Len(class_ids) # Len(encoder_hidden_states)
     /\ config.add_cross_attention /\ config.num_classes > 0
     /\ args.input_ids # None /\ args.timesteps >= 1
     /\ pc \in {"returned", "raised"}) =>
        /\ pc = "raised"
        /\ round_log.fwd.error = "notcalled"

(* the class ids the caller created, before any call shifted them *)
OriginalClassIds == IF call = 2 THEN prev.entry ELSE entry

(* C19: on a class-conditioned model, for class ids in [0, num_classes),   *)
(* the class token at position 0 of the model input lies in                *)
(* [codebook_size, vocab_size - 1), on the first call and on a later call  *)
(* with the same class_ids (calls whose forward passes succeed).           *)
C19_ClassTokenRange ==
    (/\ config.num_classes > 0 /\ class_ids # None /\ round_log.model_in # None
     /\ round_log.fwd.error = "none" /\ (call = 2 => prev.pc = "returned")
     /\ \A b \in 1..Len(OriginalClassIds) :
            OriginalClassIds[b] >= 0 /\ OriginalClassIds[b] < config.num_classes) =>
        \A b \in 1..Len(round_log.model_in) :
            /\ round_log.model_in[b][1] >= config.codebook_size
            /\ round_log.model_in[b][1] < config.vocab_size - 1

C21_KwargsIgnored ==
    twin.pc # "idle" =>
        /\ KwargsNames = {"negative_embeds", "topk_filter_thres", "generator"}
        /\ twin.runs[1].pc = twin.runs[2].pc
        /\ twin.runs[1].error = twin.runs[2].error
        /\ twin.runs[1].result = twin.runs[2].result
        /\ twin.runs[1].input_ids = twin.runs[2].input_ids
        /\ twin.runs[1].sampled_ids = twin.runs[2].sampled_ids
        /\ twin.runs[1].temperature = twin.runs[2].temperature
        /\ \A i \in 1..2 :
              (/\ twin.runs[i].embeddings # None
               /\ UseGuidance(twin.encoder_hidden_states, twin.args.guidance_scale)) =>
                 /\ Len(twin.runs[i].embeddings) = 2 * Len(twin.encoder_hidden_states)
                 /\ \A b \in 1..Len(twin.encoder_hidden_states) :
                       /\ twin.runs[i].embeddings[b] = twin.encoder_hidden_states[b]
                       /\ twin.runs[i].embeddings[Len(twin.encoder_hidden_states) + b] = 0

C21_Witness ==
    /\ twin.pc = "done"
    /\ twin.runs[2].pc = "returned"
    /\ twin.args.timesteps >= 2
    /\ UseGuidance(twin.encoder_hidden_states, twin.args.guidance_scale)
    /\ twin.kwargs[2].negative_embeds # None
    /\ twin.kwargs[2].topk_filter_thres # twin.kwargs[1].topk_filter_thres
    /\ twin.kwargs[2].generator # twin.kwargs[1].generator
    /\ twin.runs[2].embeddings # None
    /\ twin.runs[2].result = twin.runs[1].result

====
